---- MODULE Spec2Model ----
(***************************************************************************)
(* A model of the terminal PDF reader in src/main.rs: the pagination of    *)
(* the extracted text (split_into_pages, format_pdf_content), the App      *)
(* state with its navigation, search and input-mode operations, the key    *)
(* dispatch of run_app, the search highlighting of ui, and the terminal    *)
(* setup and restore of main.                                              *)
(*                                                                         *)
(* A Rust String is modelled as a sequence of one-character strings, so    *)
(* that lines(), trim(), split(), contains() and to_lowercase() are        *)
(* computed character by character as the library computes them; where ui  *)
(* works with byte offsets, the characters are expanded to their bytes.    *)
(***************************************************************************)
EXTENDS Integers, Sequences, FiniteSets, TLC

(***************************************************************************)
(* Bounds of the model.                                                    *)
(***************************************************************************)
\* longest input_buffer the model types (longer buffers are not entered)
MaxBuf == 2
\* largest scroll_offset that scroll_down is taken from
MaxScroll == 2
\* longest raw text enumerated character by character for pagination
MaxTextLen == 5

\* `let lines_per_page = 50;` in split_into_pages
lines_per_page == 50
\* `result.line.saturating_sub(5)` in go_to_search_result
context_lines == 5

(***************************************************************************)
(* Characters.                                                             *)
(***************************************************************************)
FF == "\f"
LF == "\n"
CR == "\r"

\* char::is_whitespace, restricted to the characters the model uses
IsWhitespace(c) == c \in {" ", "\t", LF, CR, FF}

\* char::is_ascii_digit
is_ascii_digit(c) == c \in {"0", "1", "2", "3", "4", "5", "6", "7", "8", "9"}

DigitVal(c) ==
    CASE c = "0" -> 0 [] c = "1" -> 1 [] c = "2" -> 2 [] c = "3" -> 3
      [] c = "4" -> 4 [] c = "5" -> 5 [] c = "6" -> 6 [] c = "7" -> 7
      [] c = "8" -> 8 [] c = "9" -> 9

\* the character U+212A KELVIN SIGN: three bytes of UTF-8, lower case "k"
KELVIN_SIGN == "U+212A"

\* char::to_lowercase on the letters the model uses
LowerChar(c) ==
    CASE c = "A" -> "a" [] c = "B" -> "b" [] c = "G" -> "g" [] c = "Q" -> "q"
      [] c = KELVIN_SIGN -> "k"
      [] OTHER -> c

\* char::len_utf8: the model's other characters are ASCII
len_utf8(c) == IF c = KELVIN_SIGN THEN 3 ELSE 1

\* str::to_lowercase
to_lowercase(s) == [i \in 1..Len(s) |-> LowerChar(s[i])]

(***************************************************************************)
(* String operations of the standard library.                              *)
(***************************************************************************)
\* str::split(char): n separators give n+1 segments, empty ones included
split(s, sep) ==
    LET IsSepAt(i) == s[i] = sep
        \* where the separators are, in order
        at == SelectSeq([i \in 1..Len(s) |-> i], IsSepAt)
        m == Len(at)
        \* the k-th separator; 0 and Len(s)+1 stand for the two ends
        pos(k) == IF k = 0 THEN 0 ELSE IF k = m + 1 THEN Len(s) + 1 ELSE at[k]
    IN  [k \in 1..(m + 1) |-> SubSeq(s, pos(k - 1) + 1, pos(k) - 1)]

\* a line's trailing carriage return belongs to its "\r\n" terminator
StripCR(l) ==
    IF Len(l) > 0 /\ l[Len(l)] = CR THEN SubSeq(l, 1, Len(l) - 1) ELSE l

\* str::lines: split at "\n" (or "\r\n"); a final empty piece is no line
lines(s) ==
    LET parts == split(s, LF)
        n == Len(parts)
        kept == IF parts[n] = <<>> THEN SubSeq(parts, 1, n - 1) ELSE parts
        terminated(i) == i < n
    IN  [i \in 1..Len(kept) |->
            IF terminated(i) THEN StripCR(kept[i]) ELSE kept[i]]

RECURSIVE TrimStart(_)
TrimStart(s) ==
    IF s # <<>> /\ IsWhitespace(Head(s)) THEN TrimStart(Tail(s)) ELSE s

RECURSIVE TrimEnd(_)
TrimEnd(s) ==
    IF s # <<>> /\ IsWhitespace(s[Len(s)])
    THEN TrimEnd(SubSeq(s, 1, Len(s) - 1)) ELSE s

\* str::trim
trim(s) == TrimEnd(TrimStart(s))

RECURSIVE join(_, _)
\* [&str]::join(sep), computed by halves
join(ss, sep) ==
    IF ss = <<>> THEN <<>>
    ELSE IF Len(ss) = 1 THEN ss[1]
    ELSE LET h == Len(ss) \div 2
         IN  join(SubSeq(ss, 1, h), sep) \o <<sep>>
                 \o join(SubSeq(ss, h + 1, Len(ss)), sep)

RECURSIVE chunks(_, _)
\* slice::chunks(n): consecutive groups of n, the last one possibly shorter
chunks(ss, n) ==
    IF ss = <<>> THEN <<>>
    ELSE IF Len(ss) <= n THEN <<ss>>
    ELSE <<SubSeq(ss, 1, n)>> \o chunks(SubSeq(ss, n + 1, Len(ss)), n)

\* str::contains(&str)
contains(hay, needle) ==
    \E i \in 0..(Len(hay) - Len(needle)) :
        SubSeq(hay, i + 1, i + Len(needle)) = needle

\* str::contains(char)
contains_char(s, c) == \E i \in 1..Len(s) : s[i] = c

RECURSIVE as_bytes(_)
\* str::as_bytes: the k-th byte of the character c is written <<c, k>>
as_bytes(s) ==
    IF s = <<>> THEN <<>>
    ELSE [k \in 1..len_utf8(Head(s)) |-> <<Head(s), k>>] \o as_bytes(Tail(s))

\* str::len, the length in bytes
str_len(s) == Len(as_bytes(s))

\* str::is_char_boundary
is_char_boundary(s, i) ==
    \/ i = 0
    \/ i = str_len(s)
    \/ i < str_len(s) /\ as_bytes(s)[i + 1][2] = 1

\* a range `from..to` of byte offsets that slicing s accepts; any other panics
is_slice(s, from, to) ==
    /\ from <= to
    /\ to <= str_len(s)
    /\ is_char_boundary(s, from)
    /\ is_char_boundary(s, to)

\* &s[from..to], for a range that is_slice accepts
slice(s, from, to) ==
    LET bytes == SubSeq(as_bytes(s), from + 1, to)
        first == SelectSeq(bytes, LAMBDA b : b[2] = 1)
    IN  [i \in 1..Len(first) |-> first[i][1]]

\* str::find(&str): the Option is the empty set or the set of the one byte
\* offset of the leftmost occurrence
find(hay, needle) ==
    LET h == as_bytes(hay)
        n == as_bytes(needle)
        at == {i \in 0..(Len(h) - Len(n)) : SubSeq(h, i + 1, i + Len(n)) = n}
    IN  IF at = {} THEN {}
        ELSE {CHOOSE i \in at : \A j \in at : i <= j}

(***************************************************************************)
(* Pagination.                                                             *)
(***************************************************************************)
IsNonEmpty(s) == s # <<>>

\* format_pdf_content that keeps the lines that are empty after the trim
format_pdf_content_keeps_blank(content) ==
    LET ls == lines(content)
        trimmed == [i \in 1..Len(ls) |-> trim(ls[i])]
    IN  join(trimmed, LF)

\* format_pdf_content: trim every line, drop the empty ones, rejoin
format_pdf_content(content) ==
    LET ls == lines(content)
        trimmed == [i \in 1..Len(ls) |-> trim(ls[i])]
    IN  join(SelectSeq(trimmed, IsNonEmpty), LF)

\* the filter of both branches: !page.trim().is_empty()
PageIsKept(page) == trim(page) # <<>>

\* split_into_pages, form-feed branch (returns without the fallback)
split_on_form_feed(text) ==
    LET segs == split(text, FF)
        formatted == [i \in 1..Len(segs) |-> format_pdf_content(segs[i])]
    IN  SelectSeq(formatted, PageIsKept)

\* split_into_pages, second branch: chunks of lines_per_page lines, then the
\* fallback to one page holding the whole formatted text
split_by_line_count(text) ==
    LET cs == chunks(lines(text), lines_per_page)
        formatted == [i \in 1..Len(cs) |-> format_pdf_content(join(cs[i], LF))]
        pages == SelectSeq(formatted, PageIsKept)
    IN  IF pages = <<>> THEN <<format_pdf_content(text)>> ELSE pages

split_into_pages(text) ==
    IF contains_char(text, FF) THEN split_on_form_feed(text)
    ELSE split_by_line_count(text)

(***************************************************************************)
(* The App struct and its methods.  Every method takes the App value and   *)
(* returns the App value it leaves behind.                                 *)
(***************************************************************************)
\* status_message: the format string and the values formatted into it
Status(fmt, n, m, q) == [fmt |-> fmt, n |-> n, m |-> m, q |-> q]
NoStatus == Status("", 0, 0, <<>>)

\* SearchResult { page, line }
SearchResult(p, l) == [page |-> p, line |-> l]

\* usize::saturating_sub
saturating_sub(a, b) == IF a >= b THEN a - b ELSE 0

\* App::new
App_new(pdf_content) ==
    [ pages                 |-> pdf_content,
      current_page          |-> 0,
      scroll_offset         |-> 0,
      should_quit           |-> FALSE,
      input_mode            |-> "Normal",
      input_buffer          |-> <<>>,
      search_query          |-> <<>>,
      search_results        |-> <<>>,
      current_search_result |-> 0,
      status_message        |-> NoStatus ]

\* next_page without the test for the last page
next_page_unguarded(a) ==
    [a EXCEPT !.current_page = @ + 1, !.scroll_offset = 0]

\* next_page that moves on without resetting the scroll offset
next_page_keeps_scroll(a) ==
    IF a.current_page < saturating_sub(Len(a.pages), 1)
    THEN [a EXCEPT !.current_page = @ + 1]
    ELSE a

next_page(a) ==
    IF a.current_page < saturating_sub(Len(a.pages), 1)
    THEN [a EXCEPT !.current_page = @ + 1, !.scroll_offset = 0]
    ELSE a

prev_page(a) ==
    IF a.current_page > 0
    THEN [a EXCEPT !.current_page = @ - 1, !.scroll_offset = 0]
    ELSE a

scroll_down(a) == [a EXCEPT !.scroll_offset = @ + 1]

\* scroll_up with a plain subtraction
scroll_up_unsaturated(a) == [a EXCEPT !.scroll_offset = @ - 1]

scroll_up(a) == [a EXCEPT !.scroll_offset = saturating_sub(@, 1)]

quit(a) == [a EXCEPT !.should_quit = TRUE]

\* jump_to_page with the upper limit off by one
jump_to_page_off_by_one(a, page_num) ==
    IF page_num > 0 /\ page_num <= Len(a.pages) + 1
    THEN [a EXCEPT !.current_page = page_num - 1,
                   !.scroll_offset = 0,
                   !.status_message = Status("Jumped to page {}", page_num, 0, <<>>)]
    ELSE [a EXCEPT !.status_message =
                       Status("Invalid page number: {}", page_num, 0, <<>>)]

jump_to_page(a, page_num) ==
    IF page_num > 0 /\ page_num <= Len(a.pages)
    THEN [a EXCEPT !.current_page = page_num - 1,
                   !.scroll_offset = 0,
                   !.status_message = Status("Jumped to page {}", page_num, 0, <<>>)]
    ELSE [a EXCEPT !.status_message =
                       Status("Invalid page number: {}", page_num, 0, <<>>)]

start_page_jump(a) ==
    [a EXCEPT !.input_mode = "PageJump",
              !.input_buffer = <<>>,
              !.status_message = Status("Enter page number:", 0, 0, <<>>)]

start_search(a) ==
    [a EXCEPT !.input_mode = "Search",
              !.input_buffer = <<>>,
              !.status_message = Status("Enter search term:", 0, 0, <<>>)]

\* go_to_search_result that scrolls to the line itself, without the look-back
go_to_search_result_no_context(a) ==
    IF a.current_search_result < Len(a.search_results)
    THEN LET result == a.search_results[a.current_search_result + 1]
         IN  [a EXCEPT !.current_page = result.page,
                       !.scroll_offset = result.line,
                       !.status_message =
                           Status("Result {} of {} for '{}'",
                                  a.current_search_result + 1,
                                  Len(a.search_results),
                                  a.search_query)]
    ELSE a

go_to_search_result(a) ==
    IF a.current_search_result < Len(a.search_results)
    THEN LET result == a.search_results[a.current_search_result + 1]
         IN  [a EXCEPT !.current_page = result.page,
                       !.scroll_offset = saturating_sub(result.line, context_lines),
                       !.status_message =
                           Status("Result {} of {} for '{}'",
                                  a.current_search_result + 1,
                                  Len(a.search_results),
                                  a.search_query)]
    ELSE a

RECURSIVE PageMatches_case_sensitive(_, _, _, _)
\* the inner loop of execute_search without the to_lowercase of the line
PageMatches_case_sensitive(page_idx, ls, line_idx, query_lower) ==
    IF line_idx >= Len(ls) THEN <<>>
    ELSE (IF contains(ls[line_idx + 1], query_lower)
          THEN <<SearchResult(page_idx, line_idx)>> ELSE <<>>)
         \o PageMatches_case_sensitive(page_idx, ls, line_idx + 1, query_lower)

\* the inner loop of execute_search: the matching lines of one page, in order
RECURSIVE PageMatches(_, _, _, _)
PageMatches(page_idx, ls, line_idx, query_lower) ==
    IF line_idx >= Len(ls) THEN <<>>
    ELSE (IF contains(to_lowercase(ls[line_idx + 1]), query_lower)
          THEN <<SearchResult(page_idx, line_idx)>> ELSE <<>>)
         \o PageMatches(page_idx, ls, line_idx + 1, query_lower)

\* the outer loop of execute_search: the pages in order
RECURSIVE DocMatches(_, _, _)
DocMatches(pages, page_idx, query_lower) ==
    IF page_idx >= Len(pages) THEN <<>>
    ELSE PageMatches(page_idx, lines(pages[page_idx + 1]), 0, query_lower)
         \o DocMatches(pages, page_idx + 1, query_lower)

\* execute_search without the test for an empty buffer
execute_search_accepts_empty(a) ==
    LET query == a.input_buffer
        found == DocMatches(a.pages, 0, to_lowercase(query))
        b == [a EXCEPT !.search_query = query, !.search_results = found]
    IN  IF found = <<>>
        THEN [b EXCEPT !.status_message =
                           Status("No results found for '{}'", 0, 0, query)]
        ELSE go_to_search_result([b EXCEPT !.current_search_result = 0])

\* execute_search without search_results.clear()
execute_search_keeps_results(a) ==
    IF a.input_buffer = <<>>
    THEN [a EXCEPT !.status_message = Status("Search query is empty", 0, 0, <<>>)]
    ELSE LET query == a.input_buffer
             found == a.search_results \o DocMatches(a.pages, 0, to_lowercase(query))
             b == [a EXCEPT !.search_query = query, !.search_results = found]
         IN  IF found = <<>>
             THEN [b EXCEPT !.status_message =
                                Status("No results found for '{}'", 0, 0, query)]
             ELSE go_to_search_result([b EXCEPT !.current_search_result = 0])

execute_search(a) ==
    IF a.input_buffer = <<>>
    THEN [a EXCEPT !.status_message = Status("Search query is empty", 0, 0, <<>>)]
    ELSE LET query == a.input_buffer
             found == DocMatches(a.pages, 0, to_lowercase(query))
             b == [a EXCEPT !.search_query = query, !.search_results = found]
         IN  IF found = <<>>
             THEN [b EXCEPT !.status_message =
                                Status("No results found for '{}'", 0, 0, query)]
             ELSE go_to_search_result([b EXCEPT !.current_search_result = 0])

\* next_search_result without the wrap to the first result
next_search_result_no_wrap(a) ==
    IF a.search_results # <<>>
    THEN go_to_search_result([a EXCEPT !.current_search_result = @ + 1])
    ELSE a

next_search_result(a) ==
    IF a.search_results # <<>>
    THEN go_to_search_result(
             [a EXCEPT !.current_search_result = (@ + 1) % Len(a.search_results)])
    ELSE a

prev_search_result(a) ==
    IF a.search_results # <<>>
    THEN go_to_search_result(
             [a EXCEPT !.current_search_result =
                           IF @ = 0 THEN Len(a.search_results) - 1 ELSE @ - 1])
    ELSE a

\* cancel_input that drops the search session too
cancel_input_clears_search(a) ==
    [a EXCEPT !.input_mode = "Normal",
              !.input_buffer = <<>>,
              !.status_message = NoStatus,
              !.search_query = <<>>,
              !.search_results = <<>>,
              !.current_search_result = 0]

cancel_input(a) ==
    [a EXCEPT !.input_mode = "Normal",
              !.input_buffer = <<>>,
              !.status_message = NoStatus]

\* clear_search that leaves the cursor where it was
clear_search_keeps_cursor(a) ==
    [a EXCEPT !.search_query = <<>>,
              !.search_results = <<>>,
              !.status_message = Status("Search cleared", 0, 0, <<>>)]

\* clear_search that forgets the query but keeps the results
clear_search_keeps_results(a) ==
    [a EXCEPT !.search_query = <<>>,
              !.status_message = Status("Search cleared", 0, 0, <<>>)]

\* clear_search that leaves the query active
clear_search_keeps_query(a) ==
    [a EXCEPT !.search_results = <<>>,
              !.current_search_result = 0,
              !.status_message = Status("Search cleared", 0, 0, <<>>)]

clear_search(a) ==
    [a EXCEPT !.search_query = <<>>,
              !.search_results = <<>>,
              !.current_search_result = 0,
              !.status_message = Status("Search cleared", 0, 0, <<>>)]

\* handle_input without the digit test of PageJump mode
handle_input_accepts_all(a, c) ==
    CASE a.input_mode = "PageJump" -> [a EXCEPT !.input_buffer = Append(@, c)]
      [] a.input_mode = "Search" -> [a EXCEPT !.input_buffer = Append(@, c)]
      [] OTHER -> a

handle_input(a, c) ==
    CASE a.input_mode = "PageJump" ->
             IF is_ascii_digit(c) THEN [a EXCEPT !.input_buffer = Append(@, c)] ELSE a
      [] a.input_mode = "Search" -> [a EXCEPT !.input_buffer = Append(@, c)]
      [] OTHER -> a

RECURSIVE DecimalValue(_)
DecimalValue(ds) ==
    IF ds = <<>> THEN 0
    ELSE 10 * DecimalValue(SubSeq(ds, 1, Len(ds) - 1)) + DigitVal(ds[Len(ds)])

\* str::parse::<usize>: an optional "+", then one or more decimal digits.
\* (A value above usize::MAX is an error too; it needs at least ten digits,
\* more than MaxBuf lets the model type.)
parse_usize(s) ==
    LET ds == IF s # <<>> /\ Head(s) = "+" THEN Tail(s) ELSE s
    IN  IF ds # <<>> /\ \A i \in 1..Len(ds) : is_ascii_digit(ds[i])
        THEN [ok |-> TRUE, val |-> DecimalValue(ds)]
        ELSE [ok |-> FALSE, val |-> 0]

\* submit_input whose PageJump arm forgets to clear the buffer
submit_input_keeps_buffer(a) ==
    CASE a.input_mode = "PageJump" ->
             LET parsed == parse_usize(a.input_buffer)
                 b == IF parsed.ok THEN jump_to_page(a, parsed.val)
                      ELSE [a EXCEPT !.status_message =
                                         Status("Invalid page number", 0, 0, <<>>)]
             IN  [b EXCEPT !.input_mode = "Normal"]
      [] a.input_mode = "Search" ->
             [execute_search(a) EXCEPT !.input_mode = "Normal", !.input_buffer = <<>>]
      [] OTHER -> a

submit_input(a) ==
    CASE a.input_mode = "PageJump" ->
             LET parsed == parse_usize(a.input_buffer)
                 b == IF parsed.ok THEN jump_to_page(a, parsed.val)
                      ELSE [a EXCEPT !.status_message =
                                         Status("Invalid page number", 0, 0, <<>>)]
             IN  [b EXCEPT !.input_mode = "Normal", !.input_buffer = <<>>]
      [] a.input_mode = "Search" ->
             [execute_search(a) EXCEPT !.input_mode = "Normal", !.input_buffer = <<>>]
      [] OTHER -> a

\* String::pop
backspace(a) ==
    [a EXCEPT !.input_buffer = IF @ = <<>> THEN @ ELSE SubSeq(@, 1, Len(@) - 1)]

\* the Home and End arms of run_app
go_to_home(a) == [a EXCEPT !.current_page = 0, !.scroll_offset = 0]
go_to_end(a) ==
    [a EXCEPT !.current_page = saturating_sub(Len(a.pages), 1), !.scroll_offset = 0]

(***************************************************************************)
(* Key events and the dispatch of run_app.                                 *)
(***************************************************************************)
Key(code) == [code |-> code, c |-> ""]
CharKey(c) == [code |-> "Char", c |-> c]
NoKey == Key("None")

IsChar(k, c) == k.code = "Char" /\ k.c = c

\* the `match app.input_mode { ... match key.code { ... } }` of run_app
handle_key(a, k) ==
    IF a.input_mode = "Normal"
    THEN CASE IsChar(k, "q") -> quit(a)
           [] k.code = "Esc" ->
                  IF a.search_query # <<>> THEN clear_search(a) ELSE quit(a)
           [] k.code = "Right" \/ IsChar(k, "n") -> next_page(a)
           [] k.code = "Left" \/ IsChar(k, "p") -> prev_page(a)
           [] k.code = "Down" \/ IsChar(k, "j") -> scroll_down(a)
           [] k.code = "Up" \/ IsChar(k, "k") -> scroll_up(a)
           [] IsChar(k, "g") -> start_page_jump(a)
           [] IsChar(k, "/") -> start_search(a)
           [] IsChar(k, "F") -> next_search_result(a)
           [] IsChar(k, "B") -> prev_search_result(a)
           [] k.code = "Home" -> go_to_home(a)
           [] k.code = "End" -> go_to_end(a)
           [] OTHER -> a
    ELSE CASE k.code = "Enter" -> submit_input(a)
           [] k.code = "Esc" -> cancel_input(a)
           [] k.code = "Backspace" -> backspace(a)
           [] k.code = "Char" -> handle_input(a, k.c)
           [] OTHER -> a

RECURSIVE PressAll(_, _)
\* the App after the keys ks, pressed in order
PressAll(a, ks) ==
    IF ks = <<>> THEN a ELSE PressAll(handle_key(a, Head(ks)), Tail(ks))

(***************************************************************************)
(* Rendering: the content area of ui.                                      *)
(***************************************************************************)
\* Span::raw and Span::styled
Span(style, content) == [style |-> style, content |-> content]

\* a panic of the slicing while a line is built
Panicked == [panicked |-> TRUE, spans |-> <<>>]

RECURSIVE highlight_from(_, _, _, _)
\* the `while let` loop of the highlighting and the rest of the line after it
highlight_from(line, search_query, last_end, spans) ==
    LET line_lower == to_lowercase(line)
        search_query_lower == to_lowercase(search_query)
    IN  IF ~is_slice(line_lower, last_end, str_len(line_lower)) THEN Panicked
        ELSE
        LET found == find(slice(line_lower, last_end, str_len(line_lower)),
                          search_query_lower)
        IN  IF found = {}
            THEN IF last_end < str_len(line)
                 THEN IF is_slice(line, last_end, str_len(line))
                      THEN [panicked |-> FALSE,
                            spans |-> Append(spans,
                                Span("raw", slice(line, last_end, str_len(line))))]
                      ELSE Panicked
                 ELSE [panicked |-> FALSE, spans |-> spans]
            ELSE
            LET start == CHOOSE i \in found : TRUE
                actual_start == last_end + start
                actual_end == actual_start + str_len(search_query)
                before ==
                    IF actual_start > last_end
                    THEN <<Span("raw", slice(line, last_end, actual_start))>>
                    ELSE <<>>
            IN  IF actual_start > last_end /\ ~is_slice(line, last_end, actual_start)
                THEN Panicked
                ELSE IF ~is_slice(line, actual_start, actual_end)
                THEN Panicked
                ELSE highlight_from(line, search_query, actual_end,
                         spans \o before \o
                         <<Span("styled", slice(line, actual_start, actual_end))>>)

\* the closure that ui maps over the visible lines: the spans of one line
highlight(line, search_query) ==
    IF search_query # <<>> /\ contains(to_lowercase(line), to_lowercase(search_query))
    THEN highlight_from(line, search_query, 0, <<>>)
    ELSE [panicked |-> FALSE, spans |-> <<Span("raw", line)>>]

\* what one call of ui hands to the content area: the lines of the current
\* page from scroll_offset on, each as its spans; a panic ends the draw
ui(a) ==
    IF a.current_page < Len(a.pages)
    THEN LET all == lines(a.pages[a.current_page + 1])
             visible == SubSeq(all, a.scroll_offset + 1, Len(all))
             built == [i \in 1..Len(visible) |-> highlight(visible[i], a.search_query)]
         IN  IF \E i \in 1..Len(built) : built[i].panicked
             THEN [drawn |-> TRUE, panicked |-> TRUE, lines |-> <<>>]
             ELSE [drawn |-> TRUE, panicked |-> FALSE,
                   lines |-> [i \in 1..Len(built) |-> built[i].spans]]
    ELSE [drawn |-> TRUE, panicked |-> FALSE, lines |-> <<>>]

\* nothing drawn yet
NoFrame == [drawn |-> FALSE, panicked |-> FALSE, lines |-> <<>>]

(***************************************************************************)
(* State.                                                                  *)
(***************************************************************************)
VARIABLES
    text,     \* the text extract_text returned for the file
    pages,    \* main's `pages`, the result of read_pdf
    pc,       \* where main is: "main", "enable_raw_mode",
              \* "enter_alternate_screen", "terminal_new", "run_app" (waiting
              \* for an event), "disable_raw_mode", "leave_alternate_screen",
              \* "show_cursor", "exit", "panic"
    app,      \* the App that run_app works on
    key,      \* the key event run_app read last
    frame,    \* the content area of the last draw that is observed
    term,     \* the terminal: raw mode, alternate screen, mouse capture, cursor
    res,      \* main's `res`, the result of run_app: "none", "Ok", "Err"
    stdout,   \* what main printed with println!
    result    \* what main returned: "none", "Ok", "Err"

vars == <<text, pages, pc, app, key, frame, term, res, stdout, result>>

(***************************************************************************)
(* Inputs.                                                                 *)
(***************************************************************************)
\* the characters bound to a command in Normal mode
CommandChars == {"q", "n", "p", "j", "k", "g", "/", "F", "B"}
\* the characters the model types into a search
SearchChars == {"A", "q"}
\* the characters the model types into a page jump ("q" is no digit)
JumpChars == {"0", "1", "2", "q"}

\* "aq" | "Q", "q AQ" | "a": three pages divided by form feeds
ThreePageText ==
    <<"a", "q", LF, FF, "Q", LF, "q", " ", "A", "Q", LF, FF, "a">>
\* one page of eight lines, the matches of "a" on the lines 6 and 7
LongPageText ==
    <<"q", LF, "q", LF, "q", LF, "q", LF, "q", LF, "q", LF,
      "a", LF, " ", LF, "A">>
\* no text at all: the fallback makes it one empty page
EmptyText == <<>>
\* a lone form feed: no page at all
FormFeedText == <<FF>>

AppTexts == {ThreePageText, LongPageText, EmptyText, FormFeedText}

\* the characters of the texts enumerated for pagination
PagChars == {"a", " ", LF, FF}

\* n copies of unit
Repeat(unit, n) ==
    [i \in 1..(n * Len(unit)) |-> unit[((i - 1) % Len(unit)) + 1]]

\* texts of about lines_per_page lines: a line repeated, then a tail
LongTexts ==
    { Repeat(unit, n) \o tail :
        unit \in {<<"a", LF>>, <<" ", LF>>, <<LF>>},
        n \in (lines_per_page - 1)..(lines_per_page + 1),
        tail \in {<<>>, <<"a">>, <<" ">>, <<FF, "a">>} }

\* every text of at most MaxTextLen characters, and the long ones
PagTexts ==
    UNION { [1..n -> PagChars] : n \in 0..MaxTextLen } \cup LongTexts

(***************************************************************************)
(* main and run_app.                                                       *)
(***************************************************************************)
\* the terminal as the program finds it
TerminalAtStart ==
    [raw_mode |-> FALSE, alternate_screen |-> FALSE,
     mouse_capture |-> FALSE, cursor_hidden |-> FALSE]

\* the message of main for a document without pages
EmptyMessage == "PDF file is empty or could not be parsed."

Init ==
    /\ text \in AppTexts
    /\ pages = <<>>
    /\ pc = "main"
    /\ app = App_new(<<>>)
    /\ key = NoKey
    /\ frame = NoFrame
    /\ term = TerminalAtStart
    /\ res = "none"
    /\ stdout = <<>>
    /\ result = "none"

\* main up to the terminal setup: read_pdf and the is_empty exit
ReadPdf ==
    /\ pc = "main"
    /\ pages' = split_into_pages(text)
    /\ IF pages' = <<>>
       THEN /\ pc' = "exit"
            /\ stdout' = Append(stdout, EmptyMessage)
            /\ result' = "Ok"
       ELSE /\ pc' = "enable_raw_mode"
            /\ UNCHANGED <<stdout, result>>
    /\ UNCHANGED <<text, app, key, frame, term, res>>

\* enable_raw_mode()
EnableRawMode ==
    /\ pc = "enable_raw_mode"
    /\ term' = [term EXCEPT !.raw_mode = TRUE]
    /\ pc' = "enter_alternate_screen"
    /\ UNCHANGED <<text, pages, app, key, frame, res, stdout, result>>

\* execute!(stdout, EnterAlternateScreen, EnableMouseCapture)
EnterAlternateScreen ==
    /\ pc = "enter_alternate_screen"
    /\ term' = [term EXCEPT !.alternate_screen = TRUE, !.mouse_capture = TRUE]
    /\ pc' = "terminal_new"
    /\ UNCHANGED <<text, pages, app, key, frame, res, stdout, result>>

\* Terminal::new, App::new and run_app up to its first event::read; the draw
\* hides the cursor
TerminalNew ==
    /\ pc = "terminal_new"
    /\ app' = App_new(pages)
    /\ term' = [term EXCEPT !.cursor_hidden = TRUE]
    /\ pc' = "run_app"
    /\ UNCHANGED <<text, pages, key, frame, res, stdout, result>>

\* one turn of the loop of run_app: read the event, dispatch it, test
\* should_quit; the break returns Ok(()) to main
KeyEvent(k) ==
    /\ pc = "run_app"
    /\ key' = k
    /\ app' = handle_key(app, k)
    /\ Len(app'.input_buffer) <= MaxBuf
    /\ IF app'.should_quit
       THEN pc' = "disable_raw_mode" /\ res' = "Ok"
       ELSE pc' = "run_app" /\ res' = res
    /\ UNCHANGED <<text, pages, frame, term, stdout, result>>

\* disable_raw_mode()
DisableRawMode ==
    /\ pc = "disable_raw_mode"
    /\ term' = [term EXCEPT !.raw_mode = FALSE]
    /\ pc' = "leave_alternate_screen"
    /\ UNCHANGED <<text, pages, app, key, frame, res, stdout, result>>

\* execute!(terminal.backend_mut(), LeaveAlternateScreen, DisableMouseCapture)
LeaveAlternateScreen ==
    /\ pc = "leave_alternate_screen"
    /\ term' = [term EXCEPT !.alternate_screen = FALSE, !.mouse_capture = FALSE]
    /\ pc' = "show_cursor"
    /\ UNCHANGED <<text, pages, app, key, frame, res, stdout, result>>

\* terminal.show_cursor(), the report of an error of run_app, and Ok(())
ShowCursor ==
    /\ pc = "show_cursor"
    /\ term' = [term EXCEPT !.cursor_hidden = FALSE]
    /\ stdout' = IF res = "Err" THEN Append(stdout, "{err:?}") ELSE stdout
    /\ result' = "Ok"
    /\ pc' = "exit"
    /\ UNCHANGED <<text, pages, app, key, frame, res>>

\* Esc has an arm in every mode
PressEsc == KeyEvent(Key("Esc"))

\* Enter and Backspace have an arm in PageJump and Search mode only; in
\* Normal mode they take the `_ => {}` arm, which PressTab takes
PressEnter == app.input_mode # "Normal" /\ KeyEvent(Key("Enter"))
PressBackspace == app.input_mode # "Normal" /\ KeyEvent(Key("Backspace"))

\* the arrows, Home and End have an arm in Normal mode only; in PageJump and
\* Search mode they take the `_ => {}` arm, which PressTab takes
PressRight == app.input_mode = "Normal" /\ KeyEvent(Key("Right"))
PressLeft == app.input_mode = "Normal" /\ KeyEvent(Key("Left"))
PressDown ==
    /\ app.input_mode = "Normal"
    /\ app.scroll_offset < MaxScroll
    /\ KeyEvent(Key("Down"))
PressUp == app.input_mode = "Normal" /\ KeyEvent(Key("Up"))
PressHome == app.input_mode = "Normal" /\ KeyEvent(Key("Home"))
PressEnd == app.input_mode = "Normal" /\ KeyEvent(Key("End"))

\* a key no arm of run_app names, in any mode
PressTab == KeyEvent(Key("Tab"))

\* a character key in Normal mode
PressCommandChar ==
    /\ app.input_mode = "Normal"
    /\ \E c \in CommandChars \cup {"a"} :
           /\ c = "j" => app.scroll_offset < MaxScroll
           /\ KeyEvent(CharKey(c))

\* a character key in PageJump or Search mode
TypeChar ==
    \/ /\ app.input_mode = "PageJump"
       /\ \E c \in JumpChars : KeyEvent(CharKey(c))
    \/ /\ app.input_mode = "Search"
       /\ \E c \in SearchChars : KeyEvent(CharKey(c))

Next ==
    \/ ReadPdf
    \/ EnableRawMode \/ EnterAlternateScreen \/ TerminalNew
    \/ DisableRawMode \/ LeaveAlternateScreen \/ ShowCursor
    \/ PressEsc \/ PressEnter \/ PressBackspace
    \/ PressRight \/ PressLeft \/ PressDown \/ PressUp
    \/ PressHome \/ PressEnd \/ PressTab
    \/ PressCommandChar
    \/ TypeChar

Spec == Init /\ [][Next]_vars

\* pagination alone: the texts of PagTexts through read_pdf
InitPaginate ==
    /\ text \in PagTexts
    /\ pages = <<>>
    /\ pc = "main"
    /\ app = App_new(<<>>)
    /\ key = NoKey
    /\ frame = NoFrame
    /\ term = TerminalAtStart
    /\ res = "none"
    /\ stdout = <<>>
    /\ result = "none"

SpecPaginate == InitPaginate /\ [][ReadPdf]_vars

\* `?` returns the error from main at once; a Terminal that exists is dropped
\* on the way, which may show the cursor again
ReturnErr ==
    /\ pc' = "exit"
    /\ result' = "Err"
    /\ UNCHANGED <<text, pages, app, key, frame, res, stdout>>

\* read_pdf fails: extract_text returned an error
ExtractFails ==
    /\ pc = "main"
    /\ term' = term
    /\ ReturnErr

\* enable_raw_mode fails
EnableRawModeFails ==
    /\ pc = "enable_raw_mode"
    /\ term' = term
    /\ ReturnErr

\* execute!(.., EnterAlternateScreen, EnableMouseCapture) fails, before or
\* after the terminal took the first command
EnterAlternateScreenFails ==
    /\ pc = "enter_alternate_screen"
    /\ \E entered \in BOOLEAN : term' = [term EXCEPT !.alternate_screen = entered]
    /\ ReturnErr

\* Terminal::new fails
TerminalNewFails ==
    /\ pc = "terminal_new"
    /\ term' = term
    /\ ReturnErr

\* terminal.draw fails in run_app: the error goes to main's `res`
DrawFails ==
    /\ pc = "run_app"
    /\ res' = "Err"
    /\ pc' = "disable_raw_mode"
    /\ UNCHANGED <<text, pages, app, key, frame, term, stdout, result>>

\* event::read fails in run_app: the error goes to main's `res`
EventReadFails ==
    /\ pc = "run_app"
    /\ res' = "Err"
    /\ pc' = "disable_raw_mode"
    /\ UNCHANGED <<text, pages, app, key, frame, term, stdout, result>>

\* disable_raw_mode fails
DisableRawModeFails ==
    /\ pc = "disable_raw_mode"
    /\ \E hidden \in {FALSE, term.cursor_hidden} :
           term' = [term EXCEPT !.cursor_hidden = hidden]
    /\ ReturnErr

\* execute!(.., LeaveAlternateScreen, DisableMouseCapture) fails, before or
\* after the terminal took the first command
LeaveAlternateScreenFails ==
    /\ pc = "leave_alternate_screen"
    /\ \E left \in BOOLEAN, hidden \in {FALSE, term.cursor_hidden} :
           term' = [term EXCEPT !.alternate_screen = ~left,
                                !.cursor_hidden = hidden]
    /\ ReturnErr

\* terminal.show_cursor fails
ShowCursorFails ==
    /\ pc = "show_cursor"
    /\ \E hidden \in {FALSE, term.cursor_hidden} :
           term' = [term EXCEPT !.cursor_hidden = hidden]
    /\ ReturnErr

\* main with a terminal and a file whose operations may fail, on short
\* documents
TerminalTexts == {FormFeedText, <<"a">>}

InitTerminal ==
    /\ text \in TerminalTexts
    /\ pages = <<>>
    /\ pc = "main"
    /\ app = App_new(<<>>)
    /\ key = NoKey
    /\ frame = NoFrame
    /\ term = TerminalAtStart
    /\ res = "none"
    /\ stdout = <<>>
    /\ result = "none"

NextTerminal ==
    \/ Next
    \/ ExtractFails \/ EnableRawModeFails \/ EnterAlternateScreenFails
    \/ TerminalNewFails \/ DrawFails \/ EventReadFails
    \/ DisableRawModeFails \/ LeaveAlternateScreenFails \/ ShowCursorFails

SpecTerminal == InitTerminal /\ [][NextTerminal]_vars

\* the draw of one turn of the loop of run_app; a panic of ui ends the program
Draw ==
    /\ pc = "run_app"
    /\ ~frame.drawn
    /\ frame' = ui(app)
    /\ pc' = IF frame'.panicked THEN "panic" ELSE pc
    /\ UNCHANGED <<text, pages, app, key, term, res, stdout, result>>

\* highlighting alone: a document of one line, a search for a query typed
\* and submitted, and the draw that follows
\* longest line of the document and longest query that are highlighted
MaxLineLen == 3
MaxQueryLen == 2
HighlightChars == {"a", "A", "k", KELVIN_SIGN}
Strings(chars, n) == UNION {[1..m -> chars] : m \in 0..n}
HighlightLines == Strings(HighlightChars, MaxLineLen) \ {<<>>}
HighlightQueries == Strings(HighlightChars, MaxQueryLen)
SearchKeys(q) ==
    <<CharKey("/")>> \o [i \in 1..Len(q) |-> CharKey(q[i])] \o <<Key("Enter")>>

InitHighlight ==
    /\ text \in HighlightLines
    /\ pages = split_into_pages(text)
    /\ pc = "run_app"
    /\ \E q \in HighlightQueries : app = PressAll(App_new(pages), SearchKeys(q))
    /\ key = Key("Enter")
    /\ frame = NoFrame
    /\ term = [raw_mode |-> TRUE, alternate_screen |-> TRUE,
               mouse_capture |-> TRUE, cursor_hidden |-> TRUE]
    /\ res = "none"
    /\ stdout = <<>>
    /\ result = "none"

SpecHighlight == InitHighlight /\ [][Draw]_vars

(***************************************************************************)
(* Properties.                                                             *)
(***************************************************************************)
InLoop == pc = "run_app"
NextPageKeys == {Key("Right"), CharKey("n")}
PrevPageKeys == {Key("Left"), CharKey("p")}
ScrollDownKeys == {Key("Down"), CharKey("j")}
ScrollUpKeys == {Key("Up"), CharKey("k")}
LastPage == Len(app.pages) - 1

\* C1: for a non-empty document current_page is a valid index after every
\* sequence of key events: 0 <= current_page < |pages|.
C1_CurrentPageValid ==
    Len(app.pages) > 0 =>
        app.current_page >= 0 /\ app.current_page < Len(app.pages)

\* next_page was asked to go past the last page of a three-page document
C1_Witness ==
    /\ key = CharKey("n")
    /\ Len(app.pages) = 3
    /\ app.current_page = LastPage
    /\ app.scroll_offset > 0

\* C2: input_buffer is non-empty only in PageJump or Search mode; every
\* state in Normal mode, however it was entered, has an empty input_buffer.
C2_BufferEmptyInNormal ==
    app.input_mode = "Normal" => app.input_buffer = <<>>

\* a two-digit page number was submitted and refused, and the buffer is empty
C2_Witness ==
    /\ key = Key("Enter")
    /\ app.input_mode = "Normal"
    /\ app.status_message.fmt = "Invalid page number: {}"
    /\ app.status_message.n >= 10
    /\ app.input_buffer = <<>>

\* C3: Enter in PageJump mode jumps exactly when the buffer parses to an n
\* with 1 <= n <= |pages|: then current_page = n-1 and scroll_offset = 0;
\* otherwise current_page and scroll_offset stay, an invalid-page-number
\* status is set, the mode is Normal again and the quit flag is not set.
C3_JumpToPage ==
    [][ (InLoop /\ app.input_mode = "PageJump" /\ key' = Key("Enter")) =>
          LET buf == app.input_buffer
              n == DecimalValue(buf)
              valid == /\ buf # <<>>
                       /\ \A i \in 1..Len(buf) : is_ascii_digit(buf[i])
                       /\ 1 <= n /\ n <= Len(app.pages)
          IN  IF valid
              THEN /\ app'.current_page = n - 1
                   /\ app'.scroll_offset = 0
                   /\ app'.status_message.fmt = "Jumped to page {}"
              ELSE /\ app'.current_page = app.current_page
                   /\ app'.scroll_offset = app.scroll_offset
                   /\ app'.status_message.fmt \in
                          {"Invalid page number", "Invalid page number: {}"}
                   /\ app'.input_mode = "Normal"
                   /\ ~app'.should_quit
      ]_vars

\* a jump to page |pages|+1 was refused with the view scrolled down
C3_Witness ==
    /\ key = Key("Enter")
    /\ app.status_message.fmt = "Invalid page number: {}"
    /\ app.status_message.n = Len(app.pages) + 1
    /\ app.scroll_offset > 0

\* C4 as stated: scroll_offset = 0 right after every next_page and prev_page.
C4_AlwaysResetsScroll ==
    [][ (InLoop /\ app.input_mode = "Normal"
            /\ key' \in NextPageKeys \cup PrevPageKeys) =>
          app'.scroll_offset = 0
      ]_vars

\* C4, amended: next_page and prev_page set scroll_offset to 0 whenever they
\* change the page; next_page on the last page and prev_page on the first
\* page change neither current_page nor scroll_offset.
C4_ResetsScrollOnPageChange ==
    [][ (InLoop /\ app.input_mode = "Normal") =>
          /\ key' \in NextPageKeys =>
                IF app.current_page < LastPage
                THEN /\ app'.current_page = app.current_page + 1
                     /\ app'.scroll_offset = 0
                ELSE /\ app'.current_page = app.current_page
                     /\ app'.scroll_offset = app.scroll_offset
          /\ key' \in PrevPageKeys =>
                IF app.current_page > 0
                THEN /\ app'.current_page = app.current_page - 1
                     /\ app'.scroll_offset = 0
                ELSE /\ app'.current_page = app.current_page
                     /\ app'.scroll_offset = app.scroll_offset
      ]_vars

\* prev_page was pressed on the first page of a three-page document with the
\* view scrolled down, and the scroll offset stayed
C4_Witness ==
    /\ key = Key("Left")
    /\ Len(app.pages) = 3
    /\ app.current_page = 0
    /\ app.scroll_offset > 0

\* C5: scroll_offset never goes below 0: scroll_up takes one off a positive
\* offset and leaves 0 at 0, scroll_down adds exactly one whatever the length
\* of the page, and neither changes current_page.
C5_ScrollSaturates ==
    /\ [](app.scroll_offset >= 0)
    /\ [][ (InLoop /\ app.input_mode = "Normal") =>
             /\ key' \in ScrollUpKeys =>
                   /\ app'.scroll_offset =
                          IF app.scroll_offset > 0 THEN app.scroll_offset - 1 ELSE 0
                   /\ app'.current_page = app.current_page
             /\ key' \in ScrollDownKeys =>
                   /\ app'.scroll_offset = app.scroll_offset + 1
                   /\ app'.current_page = app.current_page
         ]_vars

\* scroll_down went past the end of a page that has no line at all
C5_Witness ==
    /\ key = Key("Down")
    /\ app.pages = << <<>> >>
    /\ app.scroll_offset = 2

(***************************************************************************)
(* The meaningful lines of a text, read off the text itself: a meaningful  *)
(* line runs from the first to the last character that is not whitespace   *)
(* between two line or page breaks.                                        *)
(***************************************************************************)
IsBreak(c) == c \in {LF, FF}
NumFormFeeds(t) == Cardinality({i \in 1..Len(t) : t[i] = FF})
AllWhitespace(t) == \A i \in 1..Len(t) : IsWhitespace(t[i])

\* no line or page break from position i to position j
SameLine(t, i, j) == \A x \in i..j : ~IsBreak(t[x])

\* the positions where a meaningful line starts
LineStarts(t) ==
    { i \in 1..Len(t) :
        /\ ~IsWhitespace(t[i])
        /\ \A m \in 1..(i - 1) : ~IsWhitespace(t[m]) => ~SameLine(t, m, i) }

\* where the meaningful line starting at i ends
LineEnd(t, i) ==
    CHOOSE j \in i..Len(t) :
        /\ ~IsWhitespace(t[j])
        /\ SameLine(t, i, j)
        /\ \A m \in (j + 1)..Len(t) : ~IsWhitespace(t[m]) => ~SameLine(t, j, m)

\* the meaningful lines in text order, each with the number of form feeds
\* before it
MeaningfulLines(t) ==
    LET starts == LineStarts(t)
        st(k) == CHOOSE i \in starts : Cardinality({j \in starts : j < i}) = k - 1
    IN  [k \in 1..Cardinality(starts) |->
            [seg |-> Cardinality({x \in 1..st(k) : t[x] = FF}),
             txt |-> SubSeq(t, st(k), LineEnd(t, st(k)))]]

\* the lines that the p-th page must hold: those of the p-th form-feed
\* segment that has a meaningful line
ExpectedPageLines(t, p) ==
    LET ml == MeaningfulLines(t)
        segs == {ml[k].seg : k \in 1..Len(ml)}
        segp == CHOOSE v \in segs : Cardinality({w \in segs : w < v}) = p - 1
        InSeg(r) == r.seg = segp
        mine == SelectSeq(ml, InSeg)
    IN  [k \in 1..Len(mine) |-> mine[k].txt]

NumExpectedPages(t) ==
    LET ml == MeaningfulLines(t)
    IN  Cardinality({ml[k].seg : k \in 1..Len(ml)})

\* C6 as stated: whenever the text has no meaningful line, so that splitting
\* leaves no non-empty page, pagination returns exactly one page, which holds
\* the normalized whole input; every all-whitespace text gives one page.
C6_FallbackToOnePage ==
    (pc # "main" /\ AllWhitespace(text)) =>
        Len(pages) = 1 /\ pages[1] = format_pdf_content(text)

\* C7: a text with k >= 1 form feeds gives at most k+1 pages; every page is
\* non-empty and made of trimmed non-empty lines; the pages and their lines
\* are the meaningful lines of the text in text order, one page for each
\* form-feed segment that has a meaningful line.
C7_FormFeedPages ==
    (pc # "main" /\ NumFormFeeds(text) >= 1) =>
        /\ Len(pages) <= NumFormFeeds(text) + 1
        /\ Len(pages) = NumExpectedPages(text)
        /\ \A p \in 1..Len(pages) :
              LET ls == split(pages[p], LF)
              IN  /\ pages[p] # <<>>
                  /\ \A l \in 1..Len(ls) :
                        /\ ls[l] # <<>>
                        /\ ~IsWhitespace(ls[l][1])
                        /\ ~IsWhitespace(ls[l][Len(ls[l])])
                  /\ ls = ExpectedPageLines(text, p)

\* two form feeds with nothing between them: the empty segment is dropped,
\* the first line is trimmed, and two pages are left
C7_Witness ==
    /\ pc # "main"
    /\ text = <<" ", "a", FF, FF, "a">>
    /\ pages = << <<"a">>, <<"a">> >>

\* a line contains the query, whatever the case of its letters
ContainsIgnoringCase(line, q) ==
    \E i \in 0..(Len(line) - Len(q)) :
        \A j \in 1..Len(q) : LowerChar(line[i + j]) = LowerChar(q[j])

\* the (page, line) pairs of the document whose line contains the query
MatchingLines(doc, q) ==
    UNION { LET ls == lines(doc[p])
            IN  { <<p - 1, l - 1>> :
                    l \in {x \in 1..Len(ls) : ContainsIgnoringCase(ls[x], q)} } :
            p \in 1..Len(doc) }

\* (page, line) of one result before that of another
ResultBefore(r1, r2) ==
    r1.page < r2.page \/ (r1.page = r2.page /\ r1.line < r2.line)

\* C8: while a query is active, search_results holds exactly the (page, line)
\* pairs whose line contains the query case-insensitively, each once, in
\* strictly ascending (page, line) order; so a query that no line contains
\* has no result, and the same query always has the same results.
C8_SearchResults ==
    app.search_query # <<>> =>
        LET rs == app.search_results
        IN  /\ {<<rs[i].page, rs[i].line>> : i \in 1..Len(rs)} =
                   MatchingLines(app.pages, app.search_query)
            /\ \A i \in 1..(Len(rs) - 1) : ResultBefore(rs[i], rs[i + 1])

\* "q" was searched in the three-page document: the line "q AQ", which holds
\* it twice and in both cases, is the third and last result
C8_Witness ==
    /\ key = Key("Enter")
    /\ Len(app.pages) = 3
    /\ app.search_query = <<"q">>
    /\ app.search_results =
           <<SearchResult(0, 0), SearchResult(1, 0), SearchResult(1, 1)>>

\* C9: Enter in Search mode with an empty buffer searches nothing:
\* search_query, search_results, the result cursor, current_page and
\* scroll_offset stay as they were and the status reports the empty query.
C9_EmptySearchIsNoOp ==
    [][ (InLoop /\ app.input_mode = "Search" /\ app.input_buffer = <<>>
            /\ key' = Key("Enter")) =>
          /\ app'.search_query = app.search_query
          /\ app'.search_results = app.search_results
          /\ app'.current_search_result = app.current_search_result
          /\ app'.current_page = app.current_page
          /\ app'.scroll_offset = app.scroll_offset
          /\ app'.should_quit = app.should_quit
          /\ app'.status_message = Status("Search query is empty", 0, 0, <<>>)
      ]_vars

\* an empty search was submitted while an earlier search had its results
C9_Witness ==
    /\ key = Key("Enter")
    /\ app.status_message.fmt = "Search query is empty"
    /\ app.search_query # <<>>
    /\ Len(app.search_results) >= 2
    /\ app.current_search_result = 1

\* C10: Enter in Search mode with a non-empty buffer that no line contains
\* leaves current_page and scroll_offset as they were, empties search_results,
\* reports that nothing was found and returns to Normal mode.
C10_NoMatchKeepsView ==
    [][ (InLoop /\ app.input_mode = "Search" /\ app.input_buffer # <<>>
            /\ key' = Key("Enter")
            /\ MatchingLines(app.pages, app.input_buffer) = {}) =>
          /\ app'.current_page = app.current_page
          /\ app'.scroll_offset = app.scroll_offset
          /\ app'.search_results = <<>>
          /\ app'.status_message =
                 Status("No results found for '{}'", 0, 0, app.input_buffer)
          /\ app'.input_mode = "Normal"
      ]_vars

\* a search found nothing with the view on a later page and scrolled down
C10_Witness ==
    /\ key = Key("Enter")
    /\ app.status_message.fmt = "No results found for '{}'"
    /\ app.current_page > 0
    /\ app.scroll_offset > 0


\* the text of the end-to-end scenario: "Alpha\n\x0CBeta\nbeta again\n\x0CGamma"
ScenarioText ==
    <<"A", "l", "p", "h", "a", LF, FF,
      "B", "e", "t", "a", LF, "b", "e", "t", "a", " ", "a", "g", "a", "i", "n", LF, FF,
      "G", "a", "m", "m", "a">>

\* the scenario: "/", "beta", Enter on the paginated scenario text
ScenarioApp ==
    PressAll(App_new(split_into_pages(ScenarioText)),
             <<CharKey("/"), CharKey("b"), CharKey("e"), CharKey("t"), CharKey("a"),
               Key("Enter")>>)

ResultKeys == {CharKey("F"), CharKey("B")}

\* the step is a search submit that finds something, or F/B with results
MovesToResult ==
    /\ InLoop
    /\ \/ /\ app.input_mode = "Search"
          /\ key' = Key("Enter")
          /\ app.input_buffer # <<>>
          /\ MatchingLines(app.pages, app.input_buffer) # {}
       \/ /\ app.input_mode = "Normal"
          /\ key' \in ResultKeys
          /\ app.search_results # <<>>

\* C11: whenever the view moves to a search result (a search submit that
\* finds something, which selects result 0, or F/B), afterwards current_page
\* is the result's page and scroll_offset is max(0, line - 5); in the
\* scenario, searching "beta" gives the results (1,0), (1,1) and lands on
\* current_page = 1, scroll_offset = 0.
C11_MoveToResult ==
    /\ ScenarioApp.pages =
           << <<"A", "l", "p", "h", "a">>,
              <<"B", "e", "t", "a", LF, "b", "e", "t", "a", " ", "a", "g", "a", "i", "n">>,
              <<"G", "a", "m", "m", "a">> >>
    /\ ScenarioApp.search_results = <<SearchResult(1, 0), SearchResult(1, 1)>>
    /\ ScenarioApp.current_page = 1
    /\ ScenarioApp.scroll_offset = 0
    /\ [][ MovesToResult =>
             LET r == app'.search_results[app'.current_search_result + 1]
             IN  /\ app'.current_page = r.page
                 /\ app'.scroll_offset = IF r.line > 5 THEN r.line - 5 ELSE 0
                 /\ key' = Key("Enter") => app'.current_search_result = 0
         ]_vars

\* F moved to the result on line 7 of the eight-line page: two lines scrolled
C11_Witness ==
    /\ key = CharKey("F")
    /\ app.search_results # <<>>
    /\ app.search_results[app.current_search_result + 1] = SearchResult(0, 7)
    /\ app.current_page = 0
    /\ app.scroll_offset = 2

RECURSIVE NextResultTimes(_, _)
\* next_search_result called k times
NextResultTimes(a, k) ==
    IF k = 0 THEN a ELSE NextResultTimes(next_search_result(a), k - 1)

\* C12: result cycling wraps modulo the number n of results: F takes the
\* cursor to (cursor + 1) mod n and B to (cursor - 1) mod n, so that n calls
\* of next_search_result bring the cursor back and prev_search_result undoes
\* next_search_result; with no result both change nothing at all.
C12_ResultCycling ==
    /\ [](InLoop =>
            LET n == Len(app.search_results)
            IN  IF n = 0
                THEN next_search_result(app) = app /\ prev_search_result(app) = app
                ELSE /\ NextResultTimes(app, n).current_search_result =
                            app.current_search_result
                     /\ prev_search_result(next_search_result(app)).current_search_result =
                            app.current_search_result
                     /\ next_search_result(prev_search_result(app)).current_search_result =
                            app.current_search_result)
    /\ [][ (InLoop /\ app.input_mode = "Normal" /\ key' \in ResultKeys) =>
             LET n == Len(app.search_results)
                 c == app.current_search_result
             IN  IF n = 0 THEN app' = app
                 ELSE app'.current_search_result =
                          IF key' = CharKey("F") THEN (c + 1) % n ELSE (c + n - 1) % n
         ]_vars

\* F was pressed three times after a search with three results: result 0 again
C12_Witness ==
    /\ key = CharKey("F")
    /\ Len(app.search_results) = 3
    /\ app.current_search_result = 0


RECURSIVE Concat(_)
\* the contents of the spans, one after the other
Concat(spans) ==
    IF spans = <<>> THEN <<>> ELSE Head(spans).content \o Concat(Tail(spans))

\* the spans of one line: they spell the line; without a match they are the
\* one raw span of the line; with matches, no span is empty, every styled
\* span spells the query ignoring case, raw spans are never adjacent, and no
\* occurrence of the query starts inside a raw span (leftmost-first)
SpansHighlight(spans, line, q) ==
    /\ Concat(spans) = line
    /\ IF q = <<>> \/ ~ContainsIgnoringCase(line, q)
       THEN spans = <<Span("raw", line)>>
       ELSE /\ \A i \in 1..Len(spans) :
                 /\ spans[i].content # <<>>
                 /\ spans[i].style = "styled" =>
                        to_lowercase(spans[i].content) = to_lowercase(q)
                 /\ spans[i].style = "raw" =>
                        LET into == IF i < Len(spans)
                                    THEN SubSeq(spans[i + 1].content, 1, Len(q) - 1)
                                    ELSE <<>>
                        IN  /\ i < Len(spans) => spans[i + 1].style = "styled"
                            /\ ~ContainsIgnoringCase(spans[i].content \o into, q)

\* C13: every draw builds, for every visible line and the active query,
\* spans that spell the line exactly, with the leftmost non-overlapping
\* matches styled and raw spans between them, and a single raw span when the
\* query is empty or absent from the line.
C13_HighlightRoundTrip ==
    frame.drawn =>
        /\ ~frame.panicked
        /\ LET visible == SubSeq(lines(app.pages[app.current_page + 1]),
                                 app.scroll_offset + 1,
                                 Len(lines(app.pages[app.current_page + 1])))
           IN  /\ Len(frame.lines) = Len(visible)
               /\ \A i \in 1..Len(visible) :
                      SpansHighlight(frame.lines[i], visible[i], app.search_query)


\* C14: Esc in PageJump or Search mode empties the buffer, clears the status
\* and returns to Normal mode; current_page, scroll_offset, search_query,
\* search_results, the result cursor and should_quit stay as they were.
C14_CancelKeepsState ==
    [][ (InLoop /\ app.input_mode # "Normal" /\ key' = Key("Esc")) =>
          /\ app'.input_buffer = <<>>
          /\ app'.status_message = NoStatus
          /\ app'.input_mode = "Normal"
          /\ app'.current_page = app.current_page
          /\ app'.scroll_offset = app.scroll_offset
          /\ app'.search_query = app.search_query
          /\ app'.search_results = app.search_results
          /\ app'.current_search_result = app.current_search_result
          /\ app'.should_quit = app.should_quit
          /\ app'.pages = app.pages
      ]_vars

\* Esc left a search session with the cursor on the second result standing:
\* in Normal mode Esc would have cleared it, so an input mode was cancelled
C14_Witness ==
    /\ key = Key("Esc")
    /\ app.input_mode = "Normal"
    /\ app.search_query # <<>>
    /\ app.current_search_result = 1
    /\ app.status_message = NoStatus
    /\ ~app.should_quit

\* C15: Esc in Normal mode with an active search query clears the query, the
\* results and the cursor, sets the "Search cleared" status, stays in Normal
\* mode and does not set should_quit; without an active query it sets
\* should_quit. Either way current_page and scroll_offset are unchanged.
C15_EscInNormal ==
    [][ (InLoop /\ app.input_mode = "Normal" /\ key' = Key("Esc")) =>
          /\ IF app.search_query # <<>>
             THEN /\ app'.search_query = <<>>
                  /\ app'.search_results = <<>>
                  /\ app'.current_search_result = 0
                  /\ app'.status_message = Status("Search cleared", 0, 0, <<>>)
                  /\ app'.input_mode = "Normal"
                  /\ ~app'.should_quit
             ELSE app'.should_quit
          /\ app'.current_page = app.current_page
          /\ app'.scroll_offset = app.scroll_offset
      ]_vars

\* Esc cleared a search while the view was on the second page, scrolled down
C15_Witness ==
    /\ key = Key("Esc")
    /\ app.status_message = Status("Search cleared", 0, 0, <<>>)
    /\ app.search_query = <<>>
    /\ app.current_page = 1
    /\ app.scroll_offset = 1
    /\ ~app.should_quit


\* the terminal is as the program found it
Released ==
    /\ ~term.raw_mode
    /\ ~term.alternate_screen
    /\ ~term.cursor_hidden

\* C16: once raw mode was enabled, main leaves on no path, failing setup
\* steps and failing draws and event reads included, before raw mode is
\* disabled, the alternate screen left and the cursor shown.
C16_TerminalReleased ==
    pc = "exit" => Released


\* pagination gave no page with any content
NoContent == \A p \in 1..Len(pages) : pages[p] = <<>>

\* C17: when the extracted text paginates to no page with content, main
\* prints the empty-document message and returns Ok(()) without touching the
\* terminal or creating the App; run_app is entered only with a page that
\* has content.
C17_EmptyDocumentExits ==
    /\ (pc # "main" /\ NoContent) =>
           /\ pc = "exit"
           /\ stdout = <<EmptyMessage>>
           /\ result = "Ok"
           /\ term = TerminalAtStart
           /\ app = App_new(<<>>)
    /\ InLoop => \E p \in 1..Len(app.pages) : app.pages[p] # <<>>


AllDigits(s) == \A i \in 1..Len(s) : is_ascii_digit(s[i])

\* C18: in PageJump mode input_buffer holds decimal digits only: a typed
\* digit is appended and any other typed character changes nothing at all;
\* in Search mode every typed character is appended; Backspace removes the
\* last character of a non-empty buffer and does nothing to an empty one.
C18_BufferEditing ==
    /\ [](app.input_mode = "PageJump" => AllDigits(app.input_buffer))
    /\ [][ (InLoop /\ app.input_mode # "Normal") =>
             /\ (key'.code = "Char" /\ app.input_mode = "PageJump") =>
                    IF is_ascii_digit(key'.c)
                    THEN app' = [app EXCEPT !.input_buffer = Append(@, key'.c)]
                    ELSE app' = app
             /\ (key'.code = "Char" /\ app.input_mode = "Search") =>
                    app' = [app EXCEPT !.input_buffer = Append(@, key'.c)]
             /\ key' = Key("Backspace") =>
                    IF app.input_buffer = <<>>
                    THEN app' = app
                    ELSE app' = [app EXCEPT !.input_buffer =
                                     SubSeq(@, 1, Len(@) - 1)]
         ]_vars

\* "q" was typed into a page jump that already held "1": the buffer is "1"
C18_Witness ==
    /\ key = CharKey("q")
    /\ app.input_mode = "PageJump"
    /\ app.input_buffer = <<"1">>


\* C19: whenever search_results is non-empty, the cursor is an index into
\* it, search_query is non-empty, and every result names an existing page
\* and an existing line of that page which contains search_query ignoring
\* case; this holds after any sequence of key events.
C19_SearchSession ==
    app.search_results # <<>> =>
        /\ app.current_search_result >= 0
        /\ app.current_search_result < Len(app.search_results)
        /\ app.search_query # <<>>
        /\ \A i \in 1..Len(app.search_results) :
               LET r == app.search_results[i]
               IN  /\ r.page >= 0 /\ r.page < Len(app.pages)
                   /\ LET ls == lines(app.pages[r.page + 1])
                      IN  /\ r.line >= 0 /\ r.line < Len(ls)
                          /\ ContainsIgnoringCase(ls[r.line + 1], app.search_query)

\* Enter was pressed with the cursor on the second result standing: a submit
\* that found something would have put the cursor on the first, so this was
\* an empty submit or a page jump, and the session is as it was
C19_Witness ==
    /\ key = Key("Enter")
    /\ app.search_results # <<>>
    /\ app.current_search_result = 1


QuitKeys == {CharKey("q"), Key("Esc")}
EscPresses(n) == [i \in 1..n |-> Key("Esc")]

\* C20: should_quit is set only by "q" or Esc handled in Normal mode, never
\* by a key handled in PageJump or Search mode; from every state of the loop
\* one, two or three presses of Esc in a row set it (leave the input mode,
\* clear the search, quit); and once it is set the loop is left in that turn.
C20_QuitReachability ==
    /\ [][ (~app.should_quit /\ app'.should_quit) =>
             (app.input_mode = "Normal" /\ key' \in QuitKeys) ]_vars
    /\ [][ (InLoop /\ app.input_mode # "Normal") => ~app'.should_quit ]_vars
    /\ [](InLoop =>
            /\ ~app.should_quit
            /\ \E n \in 1..3 : PressAll(app, EscPresses(n)).should_quit)
    /\ [](app.should_quit => pc # "run_app")

\* Esc set should_quit right after a search was cleared, and the loop was left
C20_Witness ==
    /\ key = Key("Esc")
    /\ app.should_quit
    /\ app.status_message = Status("Search cleared", 0, 0, <<>>)
    /\ pc = "disable_raw_mode"

====
